---- MODULE Spec2Model ----
(***************************************************************************)
(* Model of the newhorse chat back end: the WebSocket endpoint loop of     *)
(* apps/api/app/api/chat.py, the stateful-agent adapter of                 *)
(* apps/api/app/services/cli/base.py, the turn-based runner of             *)
(* apps/api/app/services/cli/runners/openai_runner.py and the provider     *)
(* router of apps/api/app/services/cli/runners/router.py.                  *)
(*                                                                         *)
(* One action is one atomic block of the asyncio event loop: the code a    *)
(* coroutine runs between two awaits that really suspend.  The call        *)
(* sites of chat.py pass the keywords agent_type and locale, which the     *)
(* generator signatures of base.py and openai_runner.py do not declare:    *)
(* a call that raises at once is the behaviour StartTurn with outcome      *)
(* "raises" (runner path) and RunnerRaises before ClientConnected (agent   *)
(* path); the other behaviours follow the generator bodies with the        *)
(* declared parameters bound.                                              *)
(***************************************************************************)
EXTENDS Integers, Sequences, FiniteSets, TLC

(***************************************************************************)
(* Bounds of the model.                                                    *)
(***************************************************************************)
MaxInstr == 2      \* instructions the clients send in one run
MaxStops == 1      \* stop signals the clients send in one run
MaxInbox == 1      \* frames queued on one socket and not yet received
MaxEvents == 1     \* assistant events in one agent attempt
MaxMtime == 1      \* writes of the configuration artifact in one run

(***************************************************************************)
(* Values.  Python None is Null; a str is a record so that an encrypted    *)
(* token and a plaintext differ.                                           *)
(***************************************************************************)
Null == [kind |-> "null"]
Plain(s) == [kind |-> "plain", text |-> s]
Token(s, k) == [kind |-> "token", text |-> s, key |-> k]
Truthy(v) == v /= Null /\ v /= Plain("")

NoHandle == 0      \* session_store has no entry for the project

Projects == {"A", "B"}
Endpoints == {"e1", "e2", "e3"}
\* the {project_id} of the URL each socket was opened on
ProjectOf(e) == IF e = "e3" THEN "B" ELSE "A"

(***************************************************************************)
(* The database after seeding (db/seed.py): built-in providers, enabled,   *)
(* without an API key.                                                     *)
(***************************************************************************)
SeedProviders ==
  << [id |-> "pa", name |-> "Anthropic", protocol |-> "anthropic",
      base_url |-> Null, api_key |-> Null, is_builtin |-> TRUE, enabled |-> TRUE],
     [id |-> "po", name |-> "OpenAI", protocol |-> "openai",
      base_url |-> Null, api_key |-> Null, is_builtin |-> TRUE, enabled |-> TRUE] >>

SeedModels ==
  << [id |-> "m1", provider_id |-> "pa", model_id |-> "sonnet", is_default |-> TRUE],
     [id |-> "m2", provider_id |-> "pa", model_id |-> "haiku", is_default |-> FALSE],
     [id |-> "m3", provider_id |-> "po", model_id |-> "gpt-4o", is_default |-> TRUE] >>

SeedProjects ==
  << [id |-> "A", preferred_cli |-> "system-agent", selected_model |-> Plain("sonnet"),
      override_provider_id |-> Null, override_api_key |-> Null],
     [id |-> "B", preferred_cli |-> "hello", selected_model |-> Plain("sonnet"),
      override_provider_id |-> Null, override_api_key |-> Null] >>

\* core/config.py:53-91: Settings declares no encryption_key field
Unset == "<unset>"
\* an exception leaving the function
Raised == [kind |-> "raised"]

SeedDB == [providers |-> SeedProviders, models |-> SeedModels,
           projects |-> SeedProjects, encryption_key |-> Unset]

\* Query.first(): the first row of a filtered table, <<>> when there is none
First(rows) == IF rows = <<>> THEN <<>> ELSE << Head(rows) >>

\* .order_by(Provider.is_builtin.desc()).first()
FirstBuiltinFirst(rows) ==
  First(SelectSeq(rows, LAMBDA r : r.is_builtin) \o SelectSeq(rows, LAMBDA r : ~r.is_builtin))

\* services/crypto.py; key is settings.encryption_key, and reading the
\* attribute raises AttributeError when Settings has no such field
GetFernet(key) == IF key = "" \/ key = "invalid" THEN <<>> ELSE <<key>>

encrypt_api_key(plaintext, key) ==
  IF ~Truthy(plaintext) THEN Plain("")
  ELSE IF key = Unset THEN Raised
  ELSE IF GetFernet(key) = <<>> THEN plaintext
  ELSE Token(plaintext, key)

decrypt_api_key(ciphertext, key) ==
  IF ~Truthy(ciphertext) THEN Plain("")
  ELSE IF key = Unset THEN Raised
  ELSE IF GetFernet(key) = <<>> THEN ciphertext
  ELSE IF ciphertext.kind = "token" /\ ciphertext.key = key THEN ciphertext.text
  ELSE ciphertext

(***************************************************************************)
(* ProviderRouter.resolve: <<>> is None, <<route>> is the returned dict.   *)
(***************************************************************************)
ResolveProvider(d, model_id, provider_id, project) ==
  LET s1 == IF Truthy(provider_id)
            THEN First(SelectSeq(d.providers, LAMBDA r : Plain(r.id) = provider_id /\ r.enabled))
            ELSE <<>>
      s2 == IF s1 = <<>> /\ project /= <<>> /\ Truthy(project[1].override_provider_id)
            THEN First(SelectSeq(d.providers,
                       LAMBDA r : Plain(r.id) = project[1].override_provider_id /\ r.enabled))
            ELSE s1
      pm == First(SelectSeq(d.models, LAMBDA r : Plain(r.model_id) = model_id))
      s3 == IF s2 = <<>> /\ Truthy(model_id) /\ pm /= <<>>
            THEN First(SelectSeq(d.providers, LAMBDA r : r.id = pm[1].provider_id /\ r.enabled))
            ELSE s2
      s4 == IF s3 = <<>>
            THEN FirstBuiltinFirst(SelectSeq(d.providers, LAMBDA r : r.enabled /\ r.api_key /= Null))
            ELSE s3
  IN s4

ResolveModel(d, model_id, project, provider) ==
  IF Truthy(model_id) THEN model_id
  ELSE IF project /= <<>> /\ Truthy(project[1].selected_model) THEN project[1].selected_model
  ELSE LET default_m == First(SelectSeq(d.models,
                              LAMBDA r : r.provider_id = provider.id /\ r.is_default))
       IN IF default_m /= <<>> THEN Plain(default_m[1].model_id) ELSE Null

ResolveKey(d, project, provider) ==
  IF project /= <<>> /\ Truthy(project[1].override_api_key)
  THEN decrypt_api_key(project[1].override_api_key, d.encryption_key)
  ELSE IF Truthy(provider.api_key) THEN decrypt_api_key(provider.api_key, d.encryption_key)
  ELSE Plain("")

resolve(d, model_id, provider_id, project_id) ==
  LET project == First(SelectSeq(d.projects, LAMBDA r : r.id = project_id))
      provider == ResolveProvider(d, model_id, provider_id, project)
  IN IF provider = <<>> THEN <<>>
     ELSE << [provider_id |-> provider[1].id,
              provider_name |-> provider[1].name,
              protocol |-> provider[1].protocol,
              base_url |-> provider[1].base_url,
              api_key |-> ResolveKey(d, project, provider[1]),
              model_id |-> ResolveModel(d, model_id, project, provider[1])] >>

\* ProviderRouter.get_runner: TRUE when an OpenAIRunner is returned
get_runner(resolved) == resolved.protocol = "openai"

(***************************************************************************)
(* State.                                                                  *)
(***************************************************************************)
VARIABLES
  db,                  \* the tables read by ProviderRouter.resolve and chat.py
  active_connections,  \* ConnectionManager.active_connections
  session_store,       \* chat.py session_store: project -> upstream handle
  executing_agent,     \* chat.py executing_agent: its keys (every value is the one HelloAgent)
  cancelled_projects,  \* core/execution_state.py cancelled_projects
  cli,                 \* BaseCLI.cli of the HelloAgent singleton
  environ,             \* os.environ entries written by chat.py
  mtime,               \* modification time of <project>/.claude/agent.yaml, 0 when absent
  inbox,               \* frames sent by the client and not yet returned by receive_text
  pc,                  \* where each endpoint coroutine is suspended
  loc,                 \* the locals of the endpoint coroutine and of its generators
  tlog,                \* what the current turn of each endpoint has done so far
  slog,                \* what the last stop handling of each endpoint did
  cfg,                 \* the run's scenario: who connects, which frames each client sends
  aux,                 \* the last call of a function that a request handler made outside a chat turn
  sent,                \* frames sent so far, by sort
  dbfail               \* failed commits of generated Messages so far

vars == << db, active_connections, session_store, executing_agent, cancelled_projects,
           cli, environ, mtime, inbox, pc, loc, tlog, slog, cfg, aux, sent, dbfail >>

MaxDbFail == 1     \* failed commits in one run
MaxRequests == 3   \* provider and project requests in one run
MaxBroadcasts == 2 \* calls of send_message in one run
MaxBlocks == 2     \* content blocks of an assistant event of SpecStream
MaxStreamEvents == 2 \* events of the stream of SpecStream

\* Message rows built by the generators; attempt tells the two streams of a turn apart
Msg(role, type, note, attempt) ==
  [role |-> role, message_type |-> type, note |-> note, attempt |-> attempt]

IsChat(m) == m.role = "assistant" /\ m.message_type = "chat"

Types(ms) == [i \in 1..Len(ms) |-> ms[i].message_type]

\* frames a client can send
StopFrame == [action |-> "stop"]
Instr(content, provider_id) ==
  [action |-> "", content |-> content, model |-> Null, provider_id |-> provider_id]
Frames ==
  {StopFrame} \cup
  {Instr(c, Null) : c \in {"hi", "/clear", ""}} \cup
  {Instr("hi", Plain(q)) : q \in {"pa", "po", "px"}}

NoClient == [id |-> 0, owner |-> "-"]

\* no call recorded
NoCall == [op |-> "-", n |-> 0]

IdleLoc ==
  [content |-> "", agent_type |-> "", claude_session_id |-> NoHandle,
   config_mtime_before |-> 0, resolved |-> <<>>, stage |-> "-",
   is_clear_command |-> FALSE, resume |-> NoHandle, attempted_resume |-> FALSE,
   got_assistant_content |-> FALSE, held_result_msg |-> <<>>,
   attempt |-> 0, opened |-> FALSE, nevents |-> 0, client |-> 0, pending |-> <<>>,
   over |-> FALSE]

IdleLog ==
  [yielded |-> <<>>, handed |-> <<>>, relayed |-> <<>>, commits |-> <<>>,
   raised |-> FALSE, inits |-> {}, results |-> {}, ended |-> {}, attempts |-> <<>>,
   cancel_at_start |-> FALSE, store_at_start |-> NoHandle,
   mtime_before |-> 0, mtime_after |-> 0,
   stop_sent |-> FALSE, stopped |-> FALSE, hooked |-> FALSE, interrupted_by |-> {}]

IdleStop ==
  [handled |-> FALSE, executing |-> FALSE, generating |-> FALSE, hook |-> FALSE,
   target |-> NoClient, raised |-> FALSE, relayed |-> <<>>]

InitRest ==
  /\ active_connections = [p \in Projects |-> <<>>]
  /\ session_store = [p \in Projects |-> NoHandle]
  /\ executing_agent = {}
  /\ cancelled_projects = {}
  /\ cli = NoClient
  /\ environ = [ANTHROPIC_API_KEY |-> Null, ANTHROPIC_BASE_URL |-> Null]
  /\ mtime = [p \in Projects |-> 0]
  /\ inbox = [e \in Endpoints |-> <<>>]
  /\ pc = [e \in Endpoints |-> "new"]
  /\ loc = [e \in Endpoints |-> IdleLoc]
  /\ tlog = [e \in Endpoints |-> IdleLog]
  /\ slog = [e \in Endpoints |-> IdleStop]
  /\ sent = [instr |-> 0, stop |-> 0]
  /\ dbfail = 0
  /\ aux = NoCall

InitState == db = SeedDB /\ InitRest

\* events of the Claude Agent SDK stream, as read by base.py:175-287
InitEvent(h) == [type |-> "system", subtype |-> "init", session_id |-> h]
AssistantEvent(blocks) == [type |-> "assistant", content |-> blocks]
ResultEvent == [type |-> "result"]
TextBlock(t) == [kind |-> "text", text |-> t]
ToolUseBlock(n) == [kind |-> "tool", name |-> n]

TextOnly == AssistantEvent(<<TextBlock("words")>>)
ToolOnly == AssistantEvent(<<ToolUseBlock("Read")>>)
ToolThenText == AssistantEvent(<<ToolUseBlock("Read"), TextBlock("words")>>)

\* the scenarios: e1 and e2 are sockets of project A, e3 is a socket of project B
AllInstr == Frames \ {StopFrame, Instr("hi", Plain("px"))}

\* one conversation: a client that chats, a second socket that stops
SoloCfg ==
  [roster |-> {"e1", "e2"},
   frames |-> [e \in Endpoints |->
                 IF e = "e1" THEN AllInstr
                 ELSE IF e = "e2" THEN {StopFrame} ELSE {}],
   dbfaulty |-> FALSE, assistant |-> {TextOnly, ToolOnly}]

\* the same, with a database whose commits may fail
FaultyCfg ==
  [roster |-> {"e1", "e2"},
   frames |-> [e \in Endpoints |->
                 IF e = "e1" THEN {Instr("hi", Plain(q)) : q \in {"pa", "po"}} \cup {Instr("", Null)}
                 ELSE IF e = "e2" THEN {StopFrame} ELSE {}],
   dbfaulty |-> TRUE, assistant |-> {ToolThenText}]

\* two sockets of project A, both chatting
MultiCfg ==
  [roster |-> {"e1", "e2"},
   frames |-> [e \in Endpoints |->
                 IF e = "e1" THEN {Instr("hi", Plain("pa")), StopFrame}
                 ELSE IF e = "e2" THEN {Instr("hi", Plain("pa")), Instr("", Null)}
                 ELSE {}],
   dbfaulty |-> FALSE, assistant |-> {TextOnly}]

\* projects A and B chatting, a second socket of A that stops
CrossCfg ==
  [roster |-> Endpoints,
   frames |-> [e \in Endpoints |->
                 IF e = "e2" THEN {StopFrame, Instr("", Null)}
                 ELSE {Instr("hi", Plain("pa"))}],
   dbfaulty |-> FALSE, assistant |-> {TextOnly}]

Init == InitState /\ cfg = SoloCfg
InitFaulty == InitState /\ cfg = FaultyCfg
InitMulti == InitState /\ cfg = MultiCfg
InitCross == InitState /\ cfg = CrossCfg

\* an endpoint is inside the try block of chat.py:196-307
InFlight(e) == pc[e] \in {"connect", "stream", "send"}
Generating(p) == {e \in Endpoints : ProjectOf(e) = p /\ InFlight(e)}

\* identities of ClaudeSDKClient objects and of the sessions they open: a new
\* one is the least number that no variable still mentions
IdPool == 1..(6 * Cardinality(Endpoints))
Referenced ==
  {session_store[p] : p \in Projects} \cup {cli.id}
  \cup UNION {{loc[g].claude_session_id, loc[g].resume, loc[g].client, slog[g].target.id}
               : g \in Endpoints}
FreshId == CHOOSE h \in IdPool \ Referenced : \A k \in IdPool \ Referenced : h <= k

\* the ClaudeSDKClient is the one of a stream that is being read now
Live(c) ==
  /\ c.id /= 0
  /\ pc[c.owner] \in {"stream", "send"}
  /\ loc[c.owner].client = c.id
  /\ loc[c.owner].stage \in {"first", "retry"}

(***************************************************************************)
(* ConnectionManager                                                       *)
(***************************************************************************)
connect(e) ==
  /\ pc[e] = "new"
  /\ e \in cfg.roster
  /\ active_connections' =
       [active_connections EXCEPT ![ProjectOf(e)] = Append(@, e)]
  /\ pc' = [pc EXCEPT ![e] = "recv"]
  /\ UNCHANGED << db, session_store, executing_agent, cancelled_projects, cli, environ,
                  mtime, inbox, loc, tlog, slog, cfg, aux, sent, dbfail >>

\* list.remove: drops the first occurrence
Remove(q, x) ==
  LET idx == {i \in 1..Len(q) : q[i] = x}
      k == CHOOSE i \in idx : \A j \in idx : i <= j
  IN IF idx = {} THEN q
     ELSE [i \in 1..(Len(q) - 1) |-> IF i < k THEN q[i] ELSE q[i + 1]]

\* receive_text raises WebSocketDisconnect: chat.py:370-372
WebSocketDisconnect(e) ==
  /\ pc[e] = "recv"
  /\ active_connections' =
       [active_connections EXCEPT ![ProjectOf(e)] = Remove(@, e)]
  /\ executing_agent' = executing_agent \ {ProjectOf(e)}
  /\ pc' = [pc EXCEPT ![e] = "closed"]
  /\ UNCHANGED << db, session_store, cancelled_projects, cli, environ,
                  mtime, inbox, loc, tlog, slog, cfg, aux, sent, dbfail >>

\* the client program writes one frame to the socket
ClientSend(e, fr) ==
  /\ pc[e] \notin {"new", "closed"}
  /\ fr \in cfg.frames[e]
  /\ Len(inbox[e]) < MaxInbox
  /\ IF fr = StopFrame THEN sent.stop < MaxStops ELSE sent.instr < MaxInstr
  /\ inbox' = [inbox EXCEPT ![e] = Append(@, fr)]
  /\ sent' = IF fr = StopFrame THEN [sent EXCEPT !.stop = @ + 1]
             ELSE [sent EXCEPT !.instr = @ + 1]
  /\ tlog' = [tlog EXCEPT ![e].stop_sent = @ \/ (fr = StopFrame /\ InFlight(e))]
  /\ UNCHANGED << db, active_connections, session_store, executing_agent,
                  cancelled_projects, cli, environ, mtime, pc, loc, slog, cfg, aux, dbfail >>

(***************************************************************************)
(* Stop action: chat.py:86-126                                             *)
(***************************************************************************)
StoppedMsg == Msg("system", "stopped", "-", 0)
StopFailedMsg == Msg("system", "error", "failed_to_stop", 0)

\* nothing is relayed for a stop that finds no agent executing
IdleStopReply_silent == <<>>

\* chat.py:115-125: what is relayed when no agent is executing for the project
IdleStopReply == << StoppedMsg >>

\* chat.py:94-114: what is relayed once agent.interrupt() has returned or raised
StopReply(ok) == IF ok THEN << StoppedMsg >> ELSE << StopFailedMsg >>

\* the frame is a stop; runs up to the await of cli.interrupt() or to the send
RecvStop(e) ==
  LET p == ProjectOf(e)
      base == [IdleStop EXCEPT !.executing = p \in executing_agent,
                               !.generating = Generating(p) /= {}]
  IN /\ pc[e] = "recv"
     /\ inbox[e] /= <<>>
     /\ Head(inbox[e]) = StopFrame
     /\ inbox' = [inbox EXCEPT ![e] = Tail(@)]
     /\ cancelled_projects' = cancelled_projects \cup {p}
     /\ tlog' = [g \in Endpoints |->
                  [tlog[g] EXCEPT
                     !.stopped = @ \/ g \in Generating(p),
                     !.hooked = @ \/ (p \in executing_agent /\ g \in Generating(p)),
                     !.interrupted_by =
                        IF p \in executing_agent /\ Live(cli) /\ cli.owner = g
                        THEN @ \cup {p} ELSE @]]
     /\ IF p \in executing_agent
        THEN \* agent.interrupt(): BaseCLI.interrupt, base.py:289-292
             IF cli /= NoClient
             THEN /\ pc' = [pc EXCEPT ![e] = "interrupt"]
                  /\ slog' = [slog EXCEPT ![e] =
                                [base EXCEPT !.hook = TRUE, !.target = cli]]
             ELSE /\ pc' = pc
                  /\ slog' = [slog EXCEPT ![e] =
                                [base EXCEPT !.hook = TRUE, !.handled = TRUE,
                                             !.relayed = StopReply(TRUE)]]
        ELSE /\ pc' = pc
             /\ slog' = [slog EXCEPT ![e] =
                           [base EXCEPT !.handled = TRUE, !.relayed = IdleStopReply]]
     /\ UNCHANGED << db, active_connections, session_store, executing_agent, cli,
                     environ, mtime, loc, cfg, aux, sent, dbfail >>

\* cli.interrupt() returns or raises: chat.py:95-114
InterruptReturns(e, ok) ==
  /\ pc[e] = "interrupt"
  /\ pc' = [pc EXCEPT ![e] = "recv"]
  /\ slog' = [slog EXCEPT ![e].handled = TRUE, ![e].raised = ~ok,
                          ![e].relayed = StopReply(ok)]
  /\ UNCHANGED << db, active_connections, session_store, executing_agent,
                  cancelled_projects, cli, environ, mtime, inbox, loc, tlog,
                  cfg, aux, sent, dbfail >>

\* an instruction whose content is empty: chat.py:132-133
RecvEmpty(e) ==
  /\ pc[e] = "recv"
  /\ inbox[e] /= <<>>
  /\ Head(inbox[e]) /= StopFrame
  /\ Head(inbox[e]).content = ""
  /\ inbox' = [inbox EXCEPT ![e] = Tail(@)]
  /\ UNCHANGED << db, active_connections, session_store, executing_agent,
                  cancelled_projects, cli, environ, mtime, pc, loc, tlog, slog,
                  cfg, aux, sent, dbfail >>

(***************************************************************************)
(* BaseCLI._run_streaming: the Messages yielded for one backend event.     *)
(* A block is [kind |-> "text", text |-> "words" | "blank" | ""] or        *)
(* [kind |-> "tool", name |-> ...].                                        *)
(***************************************************************************)

IsTool(b) == b.kind = "tool"
\* content.strip() is non-empty
HasWords(blocks) == \E i \in 1..Len(blocks) : blocks[i].kind = "text" /\ blocks[i].text = "words"

\* the chat Message of an assistant event is yielded before its tool_use
\* Messages
EventMessages_textfirst(ev, is_clear_command, attempt) ==
  IF ev.type = "assistant"
  THEN LET tools == SelectSeq(ev.content, IsTool)
       IN (IF HasWords(ev.content)
           THEN << Msg("assistant", "chat", "-", attempt) >> ELSE <<>>)
          \o [i \in 1..Len(tools) |-> Msg("assistant", "tool_use", tools[i].name, attempt)]
  ELSE IF ev.type = "result"
  THEN << Msg("system", "session_complete", "-", attempt) >>
  ELSE << Msg("system", "system", "initialized", attempt) >>

EventMessages(ev, is_clear_command, attempt) ==
  IF ev.type = "system"
  THEN IF ev.subtype = "init" /\ is_clear_command
       THEN << Msg("system", "system", "cleared", attempt) >>
       ELSE << Msg("system", "system", "initialized", attempt) >>
  ELSE IF ev.type = "assistant"
  THEN LET tools == SelectSeq(ev.content, IsTool)
       IN [i \in 1..Len(tools) |-> Msg("assistant", "tool_use", tools[i].name, attempt)]
          \o (IF HasWords(ev.content)
              THEN << Msg("assistant", "chat", "-", attempt) >> ELSE <<>>)
  ELSE IF ev.type = "result"
  THEN << Msg("system", "session_complete", "-", attempt) >>
  ELSE <<>>

\* the init event of a /clear turn stores its session id like any other
StoreOnEvent_keep(store, p, ev, is_clear_command) ==
  IF ev.type = "system" /\ ev.subtype = "init"
  THEN [store EXCEPT ![p] = ev.session_id]
  ELSE store

\* the handle of an init event is not stored while the stream runs
StoreOnEvent_never(store, p, ev, is_clear_command) == store

\* log_callback of chat.py:181-183 as called for an event by base.py:180-186
StoreOnEvent(store, p, ev, is_clear_command) ==
  IF ev.type = "system" /\ ev.subtype = "init"
  THEN [store EXCEPT ![p] = IF is_clear_command THEN NoHandle ELSE ev.session_id]
  ELSE store

(***************************************************************************)
(* BaseCLI.execute_with_streaming, base.py:130-158, from the point where   *)
(* the inner stream has Messages f.pending ready (or is over) up to the    *)
(* next suspension.  kind is "send" (a Message reaches the loop of         *)
(* chat.py), "stream" (wait for the next backend event), "retry" (stale    *)
(* session: second _run_streaming) or "fin" (the generator is exhausted).  *)
(***************************************************************************)
\* every resumed attempt is taken for stale
Stale_resumed(f) == f.attempted_resume /\ ~f.is_clear_command

Stale(f) ==
  ~f.got_assistant_content /\ f.attempted_resume /\ ~f.is_clear_command

\* the session_complete of a resumed attempt is not held back
HoldBack_never(f, m) == FALSE

\* the hold-back filter is applied to the retry stream as well
HoldBack_retry(f, m) ==
  /\ m.message_type = "session_complete"
  /\ f.attempted_resume
  /\ ~(f.got_assistant_content \/ IsChat(m))

\* every session_complete of a turn that resumed a handle is held back
HoldBack_resumed(f, m) ==
  m.message_type = "session_complete" /\ f.attempted_resume

\* the session_complete is held back when no handle was resumed
HoldBack_unresumed(f, m) ==
  /\ f.stage = "first"
  /\ m.message_type = "session_complete"
  /\ ~f.attempted_resume
  /\ ~(f.got_assistant_content \/ IsChat(m))

HoldBack(f, m) ==
  /\ f.stage = "first"
  /\ m.message_type = "session_complete"
  /\ f.attempted_resume
  /\ ~(f.got_assistant_content \/ IsChat(m))

RECURSIVE Advance(_)
Advance(f) ==
  IF f.pending /= <<>>
  THEN LET m == Head(f.pending)
       IN IF HoldBack(f, m)
          THEN Advance([f EXCEPT !.pending = Tail(@), !.held_result_msg = <<m>>])
          ELSE [kind |-> "send", msg |-> m,
                loc |-> [f EXCEPT !.pending = Tail(@),
                                  !.got_assistant_content =
                                     IF f.stage = "first" THEN @ \/ IsChat(m) ELSE @]]
  ELSE IF ~f.over
  THEN [kind |-> "stream", msg |-> StoppedMsg, loc |-> f]
  ELSE IF f.stage = "first" /\ Stale(f)
  THEN [kind |-> "retry", msg |-> StoppedMsg,
        loc |-> [f EXCEPT !.stage = "retry", !.resume = NoHandle, !.attempt = 2,
                          !.opened = FALSE, !.nevents = 0, !.over = FALSE]]
  ELSE IF f.stage = "first" /\ f.held_result_msg /= <<>>
  THEN [kind |-> "send", msg |-> f.held_result_msg[1],
        loc |-> [f EXCEPT !.stage = "held"]]
  ELSE [kind |-> "fin", msg |-> StoppedMsg, loc |-> f]

AgentCreatedMsg == Msg("system", "agent_created", "-", 0)

\* the Message is sent whenever the artifact exists
PostProcess_always(f, mt) ==
  IF f.agent_type = "system-agent" /\ mt > 0 THEN << AgentCreatedMsg >> ELSE <<>>

\* chat.py:309-368: the Messages relayed by the post-processing of a turn
PostProcess(f, mt) ==
  IF f.agent_type = "system-agent" /\ mt > 0 /\ mt > f.config_mtime_before
  THEN << AgentCreatedMsg >> ELSE <<>>

Attempt(f, store) ==
  [runner |-> f.stage = "runner", resume |-> f.resume, content |-> f.content,
   store |-> store, client |-> f.client]

\* base.py:149: log_callback({"claude_session_id": None}) before the retry
StaleClear(store, p) == [store EXCEPT ![p] = NoHandle]

\* the handler leaves the stored handle in place
ClearOnError_keep(store, p) == store

\* chat.py:277: session_store.pop(project_id, None)
ClearOnError(store, p) == [store EXCEPT ![p] = NoHandle]

\* a failed commit ends the stream
AfterCommit_abort(f, ok) ==
  IF ok THEN f ELSE [f EXCEPT !.pending = <<>>, !.over = TRUE]

\* chat.py:223-231, 265-273: the loop goes on whether or not the commit failed
AfterCommit(f, ok) == f

(***************************************************************************)
(* The rest of an atomic block of the endpoint coroutine: f, store, lg and *)
(* exec are the values of loc[e], session_store, tlog[e] and               *)
(* executing_agent reached so far in the block.                            *)
(***************************************************************************)
Continue(e, f, store, lg, exec) ==
  LET p == ProjectOf(e)
      a == Advance(f)
      released == a.kind = "send" /\ a.loc.stage = "held" /\ f.stage = "first"
      newstore == IF a.kind = "retry" THEN StaleClear(store, p) ELSE store
  IN /\ loc' = [loc EXCEPT ![e] =
                  IF a.kind = "retry" THEN [a.loc EXCEPT !.client = FreshId]
                  ELSE a.loc]
     /\ pc' = [pc EXCEPT ![e] =
                 CASE a.kind = "send" -> "send"
                   [] a.kind = "stream" -> "stream"
                   [] a.kind = "retry" -> "connect"
                   [] OTHER -> "done"]
     /\ session_store' = newstore
     /\ tlog' = [tlog EXCEPT ![e] =
                   CASE a.kind = "send" ->
                          [lg EXCEPT !.yielded = IF released THEN Append(@, a.msg) ELSE @,
                                     !.handed = Append(@, a.msg),
                                     !.relayed = Append(@, a.msg)]
                     [] a.kind = "retry" ->
                          [lg EXCEPT !.attempts =
                             Append(@, Attempt([a.loc EXCEPT !.client = FreshId],
                                               newstore[p]))]
                     [] a.kind = "fin" ->
                          [lg EXCEPT !.relayed = @ \o PostProcess(f, mtime[p]),
                                     !.mtime_after = mtime[p]]
                     [] OTHER -> lg]
     \* chat.py:304-307
     /\ executing_agent' = IF a.kind = "fin" THEN exec \ {p} ELSE exec
     /\ cancelled_projects' =
          IF a.kind = "fin" THEN cancelled_projects \ {p} ELSE cancelled_projects

(***************************************************************************)
(* OpenAIRunner.stream_response, openai_runner.py:58-117.  The generator   *)
(* never suspends: the completion is read by a plain for loop.  The        *)
(* outcome of the call is "words" (text accumulated), "empty", "error"     *)
(* (the completion raised inside the try of line 58) or "raises" (the     *)
(* call or the prologue of lines 30-56 raised).                           *)
(***************************************************************************)
RunnerOutcomes == {"words", "empty", "error", "raises"}

stream_response(outcome) ==
  IF outcome = "error" THEN << Msg("system", "error", "model_error", 1) >>
  ELSE (IF outcome = "words" THEN << Msg("assistant", "chat", "-", 1) >> ELSE <<>>)
       \o << Msg("system", "session_complete", "-", 1) >>

\* chat.py:234-238
SetEnviron(env, resolved) ==
  IF resolved /= <<>> /\ resolved[1].protocol = "anthropic"
  THEN [ANTHROPIC_API_KEY |->
          IF Truthy(resolved[1].api_key) THEN resolved[1].api_key
          ELSE env.ANTHROPIC_API_KEY,
        ANTHROPIC_BASE_URL |->
          IF Truthy(resolved[1].base_url) THEN resolved[1].base_url
          ELSE env.ANTHROPIC_BASE_URL]
  ELSE env

\* instruction.strip().lower() == "/clear"
IsClear(content) == content = "/clear"

\* chat.py:278-286: the error Message of the exception handler
AgentErrorMsg == Msg("system", "error", "agent_error", 0)

(***************************************************************************)
(* An instruction is received: chat.py:128-249 up to the first await, and  *)
(* base.py:93-171 on the agent path.                                       *)
(***************************************************************************)
StartTurn(e, outcome) ==
  LET p == ProjectOf(e)
      fr == Head(inbox[e])
      project == First(SelectSeq(db.projects, LAMBDA r : r.id = p))
      agent_type == IF project /= <<>> THEN project[1].preferred_cli ELSE "hello"
      resolved == resolve(db, fr.model, fr.provider_id, p)
      runner == resolved /= <<>> /\ get_runner(resolved[1])
      claude_session_id == session_store[p]
      is_clear == IsClear(fr.content)
      resume == IF is_clear THEN NoHandle ELSE claude_session_id
      f0 == [IdleLoc EXCEPT
               !.content = fr.content,
               !.agent_type = agent_type,
               !.claude_session_id = claude_session_id,
               !.config_mtime_before =
                  IF agent_type = "system-agent" /\ mtime[p] > 0 THEN mtime[p] ELSE 0,
               !.resolved = resolved,
               !.attempt = 1]
      lg0 == [IdleLog EXCEPT !.cancel_at_start = p \in cancelled_projects,
                             !.store_at_start = session_store[p],
                             !.mtime_before = mtime[p],
                             !.mtime_after = mtime[p]]
  IN /\ pc[e] = "recv"
     /\ inbox[e] /= <<>>
     /\ fr /= StopFrame
     /\ fr.content /= ""
     /\ inbox' = [inbox EXCEPT ![e] = Tail(@)]
     /\ IF runner /\ outcome = "raises"
        THEN \* chat.py:274-295
             /\ session_store' = ClearOnError(session_store, p)
             /\ loc' = [loc EXCEPT ![e] = [f0 EXCEPT !.stage = "except", !.over = TRUE]]
             /\ tlog' = [tlog EXCEPT ![e] =
                           [lg0 EXCEPT !.raised = TRUE, !.relayed = << AgentErrorMsg >>]]
             /\ pc' = [pc EXCEPT ![e] = "send"]
             /\ executing_agent' = executing_agent \cup {p}
             /\ UNCHANGED << environ, cancelled_projects >>
        ELSE IF runner
        THEN LET f1 == [f0 EXCEPT !.stage = "runner", !.over = TRUE,
                                  !.pending = stream_response(outcome)]
             IN /\ Continue(e, f1, session_store,
                            [lg0 EXCEPT !.attempts = << Attempt(f1, session_store[p]) >>,
                                        !.yielded = f1.pending,
                                        !.results = IF outcome = "error" THEN {} ELSE {1},
                                        !.ended = {1}],
                            executing_agent \cup {p})
                /\ environ' = environ
        ELSE LET f1 == [f0 EXCEPT !.stage = "first",
                                  !.is_clear_command = is_clear,
                                  !.resume = resume,
                                  !.attempted_resume = resume /= NoHandle,
                                  !.client = FreshId]
             IN /\ outcome = "words"
                /\ environ' = SetEnviron(environ, resolved)
                /\ executing_agent' = executing_agent \cup {p}
                /\ loc' = [loc EXCEPT ![e] = f1]
                /\ tlog' = [tlog EXCEPT ![e] =
                              [lg0 EXCEPT !.attempts = << Attempt(f1, session_store[p]) >>]]
                /\ pc' = [pc EXCEPT ![e] = "connect"]
                /\ UNCHANGED << session_store, cancelled_projects >>
     /\ UNCHANGED << db, active_connections, cli, mtime, slog, cfg, aux, sent, dbfail >>

\* ClaudeSDKClient connected and the query sent: base.py:171-173
ClientConnected(e) ==
  /\ pc[e] = "connect"
  /\ cli' = [id |-> loc[e].client, owner |-> e]
  /\ pc' = [pc EXCEPT ![e] = "stream"]
  /\ UNCHANGED << db, active_connections, session_store, executing_agent,
                  cancelled_projects, environ, mtime, inbox, loc, tlog, slog,
                  cfg, aux, sent, dbfail >>

\* the events the backend may send next on the stream of f: the init event
\* opens a stream, a result event may come at any point
BackendEvents(f) ==
  {ResultEvent} \cup
  (IF ~f.opened
   THEN {InitEvent(h) : h \in {f.client} \cup ({f.resume} \ {NoHandle})} ELSE {})
  \cup
  (IF f.nevents < MaxEvents THEN cfg.assistant ELSE {})

\* receive_messages() delivers an event: base.py:175-287
BackendEvent(e, ev) ==
  LET f == loc[e]
      p == ProjectOf(e)
      msgs == EventMessages(ev, f.is_clear_command, f.attempt)
      passed == IF ev.type = "result" /\ HoldBack(f, msgs[1]) THEN <<>> ELSE msgs
  IN /\ pc[e] = "stream"
     /\ ev \in BackendEvents(f)
     /\ Continue(e,
                 [f EXCEPT !.pending = msgs,
                           !.opened = TRUE,
                           !.nevents = IF ev.type = "assistant" THEN @ + 1 ELSE @,
                           !.over = (ev.type = "result")],
                 StoreOnEvent(session_store, p, ev, f.is_clear_command),
                 [tlog[e] EXCEPT !.yielded = @ \o passed,
                                 !.inits = IF ev.type = "system" /\ ev.subtype = "init"
                                           THEN @ \cup {f.attempt} ELSE @,
                                 !.results = IF ev.type = "result"
                                             THEN @ \cup {f.attempt} ELSE @,
                                 !.ended = IF ev.type = "result"
                                           THEN @ \cup {f.attempt} ELSE @],
                 executing_agent)
     /\ UNCHANGED << db, active_connections, cli, environ, mtime, inbox, slog,
                     cfg, aux, sent, dbfail >>

\* receive_messages() is exhausted without a result event
BackendEnds(e) ==
  /\ pc[e] = "stream"
  /\ Continue(e, [loc[e] EXCEPT !.over = TRUE], session_store,
              [tlog[e] EXCEPT !.ended = @ \cup {loc[e].attempt}], executing_agent)
  /\ UNCHANGED << db, active_connections, cli, environ, mtime, inbox, slog,
                  cfg, aux, sent, dbfail >>

\* connect, query or receive_messages raises: chat.py:274-295 up to the send
RunnerRaises(e) ==
  LET p == ProjectOf(e)
  IN /\ pc[e] \in {"connect", "stream"}
     /\ session_store' = ClearOnError(session_store, p)
     /\ loc' = [loc EXCEPT ![e].stage = "except", ![e].pending = <<>>, ![e].over = TRUE]
     /\ tlog' = [tlog EXCEPT ![e].raised = TRUE,
                             ![e].relayed = Append(@, AgentErrorMsg)]
     /\ pc' = [pc EXCEPT ![e] = "send"]
     /\ UNCHANGED << db, active_connections, executing_agent, cancelled_projects, cli,
                     environ, mtime, inbox, slog, cfg, aux, sent, dbfail >>

\* the backend of a system-agent project writes .claude/agent.yaml
WriteArtifact(e) ==
  LET p == ProjectOf(e)
  IN /\ pc[e] = "stream"
     /\ loc[e].agent_type = "system-agent"
     /\ mtime[p] < MaxMtime
     /\ mtime' = [mtime EXCEPT ![p] = @ + 1]
     /\ UNCHANGED << db, active_connections, session_store, executing_agent,
                     cancelled_projects, cli, environ, inbox, pc, loc, tlog, slog,
                     cfg, aux, sent, dbfail >>

\* send_message returned: commit the Message (chat.py:223-231, 265-273,
\* 296-303), then run the generator to its next suspension
SendDone(e, ok) ==
  LET lg == tlog[e]
      m == lg.relayed[Len(lg.relayed)]
  IN /\ pc[e] = "send"
     /\ ok \/ (cfg.dbfaulty /\ dbfail < MaxDbFail)
     /\ dbfail' = IF ok THEN dbfail ELSE dbfail + 1
     /\ Continue(e, AfterCommit(loc[e], ok), session_store,
                 [lg EXCEPT !.commits = Append(@, [msg |-> m, ok |-> ok])],
                 executing_agent)
     /\ UNCHANGED << db, active_connections, cli, environ, mtime, inbox, slog, cfg, aux, sent >>

\* back at receive_text: chat.py:81-82
NextIteration(e) ==
  /\ pc[e] = "done"
  /\ pc' = [pc EXCEPT ![e] = "recv"]
  /\ loc' = [loc EXCEPT ![e] = IdleLoc]
  /\ tlog' = [tlog EXCEPT ![e] = IdleLog]
  /\ UNCHANGED << db, active_connections, session_store, executing_agent,
                  cancelled_projects, cli, environ, mtime, inbox, slog, cfg, aux,
                  sent, dbfail >>

Next ==
  \/ \E e \in Endpoints : connect(e)
  \/ \E e \in Endpoints : WebSocketDisconnect(e)
  \/ \E e \in Endpoints, fr \in Frames : ClientSend(e, fr)
  \/ \E e \in Endpoints : RecvStop(e)
  \/ \E e \in Endpoints, ok \in BOOLEAN : InterruptReturns(e, ok)
  \/ \E e \in Endpoints : RecvEmpty(e)
  \/ \E e \in Endpoints, o \in RunnerOutcomes : StartTurn(e, o)
  \/ \E e \in Endpoints : ClientConnected(e)
  \/ \E e \in Endpoints : \E ev \in BackendEvents(loc[e]) : BackendEvent(e, ev)
  \/ \E e \in Endpoints : BackendEnds(e)
  \/ \E e \in Endpoints : RunnerRaises(e)
  \/ \E e \in Endpoints : WriteArtifact(e)
  \/ \E e \in Endpoints, ok \in BOOLEAN : SendDone(e, ok)
  \/ \E e \in Endpoints : NextIteration(e)

Spec == Init /\ [][Next]_vars
SpecFaulty == InitFaulty /\ [][Next]_vars
SpecMulti == InitMulti /\ [][Next]_vars
SpecCross == InitCross /\ [][Next]_vars

(***************************************************************************)
(* The provider and project request handlers, api/providers.py and         *)
(* api/projects.py, as functions of the tables.  A request body field that *)
(* was not sent is <<>>, one that was sent is <<value>>.  A handler that   *)
(* answers 404 or 400 leaves the tables as they were.                      *)
(***************************************************************************)
HasRow(rows, id) == \E i \in 1..Len(rows) : rows[i].id = id

\* providers.py:113-129
create_provider(d, id, protocol, base_url, api_key) ==
  LET key == IF Truthy(api_key) THEN encrypt_api_key(api_key, d.encryption_key) ELSE Null
  IN IF key = Raised THEN d
     ELSE [d EXCEPT !.providers =
             Append(@, [id |-> id, name |-> "Custom", protocol |-> protocol,
                        base_url |-> base_url, api_key |-> key,
                        is_builtin |-> FALSE, enabled |-> TRUE])]

\* providers.py:132-160, the fields api_key and enabled of the body
update_provider(d, provider_id, body) ==
  LET key == IF body.api_key /= <<>> /\ Truthy(body.api_key[1])
             THEN encrypt_api_key(body.api_key[1], d.encryption_key) ELSE Null
  IN
  IF ~HasRow(d.providers, provider_id) \/ key = Raised THEN d
  ELSE [d EXCEPT !.providers =
          [i \in DOMAIN @ |-> LET r == @[i] IN
            IF r.id /= provider_id THEN r
            ELSE [r EXCEPT
                    !.api_key = IF body.api_key = <<>> THEN @ ELSE key,
                    !.enabled = IF body.enabled = <<>> THEN @ ELSE body.enabled[1]]]]

\* providers.py:163-176; the models go with the provider (models/provider.py:27)
delete_provider(d, provider_id) ==
  LET found == First(SelectSeq(d.providers, LAMBDA r : r.id = provider_id))
  IN IF found = <<>> \/ found[1].is_builtin THEN d
     ELSE [d EXCEPT !.providers = SelectSeq(@, LAMBDA r : r.id /= provider_id),
                    !.models = SelectSeq(@, LAMBDA r : r.provider_id /= provider_id)]

\* the new model is added without unsetting the other defaults
add_model_keep(d, provider_id, id, model_id, is_default) ==
  IF ~HasRow(d.providers, provider_id) THEN d
  ELSE [d EXCEPT !.models =
          Append(@, [id |-> id, provider_id |-> provider_id, model_id |-> model_id,
                     is_default |-> is_default])]

\* providers.py:199-227
add_model(d, provider_id, id, model_id, is_default) ==
  IF ~HasRow(d.providers, provider_id) THEN d
  ELSE [d EXCEPT !.models =
          Append([i \in DOMAIN @ |-> LET r == @[i] IN
                   IF is_default /\ r.provider_id = provider_id
                   THEN [r EXCEPT !.is_default = FALSE] ELSE r],
                 [id |-> id, provider_id |-> provider_id, model_id |-> model_id,
                  is_default |-> is_default])]

\* providers.py:230-268, the fields model_id and is_default of the body
update_model(d, provider_id, id, body) ==
  IF ~\E i \in 1..Len(d.models) :
        d.models[i].id = id /\ d.models[i].provider_id = provider_id
  THEN d
  ELSE [d EXCEPT !.models =
          [i \in DOMAIN @ |-> LET r == @[i] IN
            IF r.id = id
            THEN [r EXCEPT !.model_id = IF body.model_id = <<>> THEN @ ELSE body.model_id[1],
                           !.is_default = IF body.is_default = <<>> THEN @
                                          ELSE body.is_default[1]]
            ELSE IF body.is_default = << TRUE >> /\ r.provider_id = provider_id
            THEN [r EXCEPT !.is_default = FALSE]
            ELSE r]]

\* providers.py:271-284
delete_model(d, provider_id, id) ==
  [d EXCEPT !.models = SelectSeq(@, LAMBDA r : ~(r.id = id /\ r.provider_id = provider_id))]

\* projects.py:96-116, the fields selected_model, override_provider_id and
\* override_api_key of the body
update_project(d, project_id, data) ==
  LET key == IF data.override_api_key /= <<>> /\ Truthy(data.override_api_key[1])
             THEN encrypt_api_key(data.override_api_key[1], d.encryption_key) ELSE Null
  IN
  IF ~HasRow(d.projects, project_id) \/ key = Raised THEN d
  ELSE [d EXCEPT !.projects =
          [i \in DOMAIN @ |-> LET r == @[i] IN
            IF r.id /= project_id THEN r
            ELSE [r EXCEPT
                    !.selected_model =
                       IF data.selected_model = <<>> \/ data.selected_model = << Null >>
                       THEN @ ELSE data.selected_model[1],
                    !.override_provider_id =
                       IF data.override_provider_id = <<>> THEN @
                       ELSE data.override_provider_id[1],
                    !.override_api_key =
                       IF data.override_api_key = <<>> THEN @ ELSE key]]]

(***************************************************************************)
(* The requests of a run that only administers providers, models and       *)
(* projects, and the calls of ProviderRouter.resolve made in between.      *)
(***************************************************************************)
AdminCfg ==
  [roster |-> {}, frames |-> [e \in Endpoints |-> {}],
   dbfaulty |-> FALSE, assistant |-> {}]

\* the settings as config.py declares them, and with an encryption key
AdminKeys == {Unset, "k1"}
InitAdmin ==
  /\ db \in {[SeedDB EXCEPT !.encryption_key = k] : k \in AdminKeys}
  /\ InitRest /\ cfg = AdminCfg

ProviderIds == {"pa", "po", "pc"}
ModelRowIds == {"m1", "m2", "m3", "m4"}
ModelNames == {"sonnet", "gpt-4o"}
Sent(S) == {<<>>} \cup {<< v >> : v \in S}

ProviderBodies ==
  {[api_key |-> k, enabled |-> en] : k \in Sent({Plain(""), Plain("sk")}), en \in Sent(BOOLEAN)}
  \ {[api_key |-> <<>>, enabled |-> <<>>]}
ModelBodies ==
  {[model_id |-> m, is_default |-> b] : m \in Sent({"sonnet"}), b \in Sent(BOOLEAN)}
  \ {[model_id |-> <<>>, is_default |-> <<>>]}
ProjectBodies ==
  {[selected_model |-> m, override_provider_id |-> q, override_api_key |-> k] :
     m \in Sent({Plain(""), Plain("gpt-4o")}),
     q \in Sent({Null, Plain("po")}),
     k \in Sent({Null, Plain("sk2")})}
  \ {[selected_model |-> <<>>, override_provider_id |-> <<>>, override_api_key |-> <<>>]}

Request(d, call) ==
  /\ db' = d
  /\ aux' = [call EXCEPT !.n = aux.n + 1]
  /\ UNCHANGED << active_connections, session_store, executing_agent,
                  cancelled_projects, cli, environ, mtime, inbox, pc, loc, tlog,
                  slog, cfg, sent, dbfail >>

CreateProvider(id, api_key) ==
  /\ aux.n < MaxRequests
  /\ ~HasRow(db.providers, id)
  /\ Request(create_provider(db, id, "openai", Null, api_key),
             [op |-> "create_provider", n |-> 0, provider_id |-> id])

UpdateProvider(id, body) ==
  /\ aux.n < MaxRequests
  /\ Request(update_provider(db, id, body),
             [op |-> "update_provider", n |-> 0, provider_id |-> id])

DeleteProvider(id) ==
  /\ aux.n < MaxRequests
  /\ Request(delete_provider(db, id),
             [op |-> "delete_provider", n |-> 0, provider_id |-> id])

AddModel(provider_id, id, model_id, is_default) ==
  /\ aux.n < MaxRequests
  /\ ~HasRow(db.models, id)
  /\ Request(add_model(db, provider_id, id, model_id, is_default),
             [op |-> "add_model", n |-> 0, provider_id |-> provider_id, id |-> id,
              is_default |-> is_default])

UpdateModel(provider_id, id, body) ==
  /\ aux.n < MaxRequests
  /\ Request(update_model(db, provider_id, id, body),
             [op |-> "update_model", n |-> 0, provider_id |-> provider_id, id |-> id,
              is_default |-> body.is_default = << TRUE >>])

DeleteModel(provider_id, id) ==
  /\ aux.n < MaxRequests
  /\ Request(delete_model(db, provider_id, id),
             [op |-> "delete_model", n |-> 0, provider_id |-> provider_id, id |-> id])

UpdateProject(project_id, data) ==
  /\ aux.n < MaxRequests
  /\ Request(update_project(db, project_id, data),
             [op |-> "update_project", n |-> 0, project_id |-> project_id])

\* a call of ProviderRouter.resolve, as chat.py:186-190 makes it
Resolve(model_id, provider_id, project_id) ==
  /\ aux' = [op |-> "resolve", n |-> aux.n, model_id |-> model_id,
             provider_id |-> provider_id, project_id |-> project_id,
             out |-> resolve(db, model_id, provider_id, project_id)]
  /\ UNCHANGED << db, active_connections, session_store, executing_agent,
                  cancelled_projects, cli, environ, mtime, inbox, pc, loc, tlog,
                  slog, cfg, sent, dbfail >>

NextAdmin ==
  \/ \E id \in {"pc"}, k \in {Null, Plain("sk")} : CreateProvider(id, k)
  \/ \E id \in ProviderIds, body \in ProviderBodies : UpdateProvider(id, body)
  \/ \E id \in ProviderIds : DeleteProvider(id)
  \/ \E q \in ProviderIds, id \in {"m4"}, m \in ModelNames, b \in BOOLEAN :
       AddModel(q, id, m, b)
  \/ \E q \in ProviderIds, id \in ModelRowIds, body \in ModelBodies : UpdateModel(q, id, body)
  \/ \E q \in ProviderIds, id \in ModelRowIds : DeleteModel(q, id)
  \/ \E data \in ProjectBodies : UpdateProject("A", data)
  \/ \E m \in {Null, Plain("sonnet")}, q \in {Null, Plain("pa"), Plain("pc")} :
       Resolve(m, q, "A")

SpecAdmin == InitAdmin /\ [][NextAdmin]_vars

(***************************************************************************)
(* The calls of encrypt_api_key and decrypt_api_key: on a secret, on the   *)
(* result of encrypting it, and on a value found in the api_key column.    *)
(***************************************************************************)
CryptoKeys == {Unset, "", "invalid", "k1", "k2"}
Secrets == {Plain(""), Plain("sk"), Plain("sk-ant"), Plain("gAAAAA"), Plain(" ")}
StoredValues ==
  {Null} \cup Secrets \cup {Token(x, k) : x \in Secrets \ {Plain("")}, k \in {"k1", "k2"}}

InitCrypto ==
  /\ db \in {[SeedDB EXCEPT !.encryption_key = k] : k \in CryptoKeys}
  /\ InitRest /\ cfg = AdminCfg

Call(call) ==
  /\ aux' = call
  /\ UNCHANGED << db, active_connections, session_store, executing_agent,
                  cancelled_projects, cli, environ, mtime, inbox, pc, loc, tlog,
                  slog, cfg, sent, dbfail >>

\* providers.py:121, 152; projects.py:114
EncryptCall(plaintext) ==
  /\ aux.op /= "encrypt"
  /\ Call([op |-> "encrypt", n |-> 0, plaintext |-> plaintext,
           out |-> encrypt_api_key(plaintext, db.encryption_key)])

\* the stored result of encrypt_api_key read back (router.py:85-90)
DecryptCall ==
  /\ aux.op = "encrypt" /\ aux.out /= Raised
  /\ Call([op |-> "decrypt", n |-> 0, of |-> << aux.plaintext >>, ciphertext |-> aux.out,
           out |-> decrypt_api_key(aux.out, db.encryption_key)])

\* a value that was in the column before (router.py:85-90, providers.py:76)
DecryptStored(v) ==
  /\ aux.op /= "encrypt"
  /\ Call([op |-> "decrypt", n |-> 0, of |-> <<>>, ciphertext |-> v,
           out |-> decrypt_api_key(v, db.encryption_key)])

NextCrypto ==
  \/ \E x \in Secrets : EncryptCall(x)
  \/ DecryptCall
  \/ \E v \in StoredValues : DecryptStored(v)

SpecCrypto == InitCrypto /\ [][NextCrypto]_vars

(***************************************************************************)
(* ConnectionManager.send_message, one await at a time: the for loop of    *)
(* chat.py:54 walks the live list active_connections[project_id] by        *)
(* position while sockets attach and detach during its suspensions.        *)
(***************************************************************************)
BroadcastCfg ==
  [roster |-> Endpoints, frames |-> [e \in Endpoints |-> {}],
   dbfaulty |-> FALSE, assistant |-> {}]

InitBroadcast == InitState /\ cfg = BroadcastCfg

Range(q) == {q[i] : i \in 1..Len(q)}

\* an endpoint's turn calls send_message: the loop takes the first socket
\* of the list and suspends in ws.send_json (chat.py:52-56)
BeginBroadcast(e) ==
  LET p == ProjectOf(e)
  IN /\ pc[e] = "recv"
     /\ aux.op /= "send_message"
     /\ aux.n < MaxBroadcasts
     /\ pc' = [pc EXCEPT ![e] = "send"]
     /\ aux' = [op |-> "send_message", n |-> aux.n + 1, by |-> e, project_id |-> p,
                start |-> Range(active_connections[p]),
                ws |-> active_connections[p][1], idx |-> 1,
                delivered |-> {}, raised |-> {}]
     /\ UNCHANGED << db, active_connections, session_store, executing_agent,
                     cancelled_projects, cli, environ, mtime, inbox, loc, tlog, slog,
                     cfg, sent, dbfail >>

\* ws.send_json returns or raises (chat.py:55-58); the loop then takes the
\* socket at the next position of the list as it is now, or ends
SendJsonReturns(ok) ==
  LET conns == active_connections[aux.project_id]
      done == [aux EXCEPT !.delivered = IF ok THEN @ \cup {aux.ws} ELSE @,
                          !.raised = IF ok THEN @ ELSE @ \cup {aux.ws}]
  IN /\ aux.op = "send_message"
     /\ IF aux.idx < Len(conns)
        THEN /\ aux' = [done EXCEPT !.ws = conns[aux.idx + 1], !.idx = aux.idx + 1]
             /\ pc' = pc
        ELSE /\ aux' = [done EXCEPT !.op = "sent"]
             /\ pc' = [pc EXCEPT ![aux.by] = "recv"]
     /\ UNCHANGED << db, active_connections, session_store, executing_agent,
                     cancelled_projects, cli, environ, mtime, inbox, loc, tlog, slog,
                     cfg, sent, dbfail >>

NextBroadcast ==
  \/ \E e \in Endpoints : connect(e)
  \/ \E e \in Endpoints : WebSocketDisconnect(e)
  \/ \E e \in Endpoints : BeginBroadcast(e)
  \/ \E ok \in BOOLEAN : SendJsonReturns(ok)

SpecBroadcast == InitBroadcast /\ [][NextBroadcast]_vars

(***************************************************************************)
(* Chat turns with a custom provider of the anthropic protocol that has a  *)
(* base_url (POST /providers, providers.py:113-129): endpoint e1 sends     *)
(* instructions routed to it and to the built-in provider.                 *)
(***************************************************************************)
ProxyDB == create_provider(SeedDB, "px", "anthropic", Plain("https://proxy"), Null)

EnvCfg ==
  [roster |-> {"e1", "e2"},
   frames |-> [e \in Endpoints |->
                 IF e = "e1"
                 THEN {Instr("hi", Plain("px")), Instr("hi", Plain("pa")), Instr("", Null)}
                 ELSE IF e = "e2" THEN {StopFrame} ELSE {}],
   dbfaulty |-> FALSE, assistant |-> {TextOnly}]

InitEnv == db = ProxyDB /\ InitRest /\ cfg = EnvCfg

SpecEnv == InitEnv /\ [][Next]_vars

(***************************************************************************)
(* One stream of BaseCLI._run_streaming (base.py:175-287) on its own: the  *)
(* events receive_messages() delivers and the Messages yielded for each.   *)
(* aux.events are the events processed so far, aux.outs the Messages       *)
(* yielded for each of them, aux.over tells that the loop was left.        *)
(***************************************************************************)
Blocks == {TextBlock("words"), TextBlock(" "), ToolUseBlock("Read"), ToolUseBlock("Write")}
BlockSeqs == UNION {[1..n -> Blocks] : n \in 0..MaxBlocks}
StreamEvents ==
  {InitEvent(1), ResultEvent} \cup {AssistantEvent(bs) : bs \in BlockSeqs}

InitStream ==
  /\ InitState /\ cfg = AdminCfg

NoStream == [op |-> "_run_streaming", n |-> 0, events |-> <<>>, outs |-> <<>>, over |-> FALSE]
TheStream == IF aux = NoCall THEN NoStream ELSE aux

\* receive_messages() delivers ev; a result event leaves the loop (base.py:287)
StreamEvent(ev) ==
  /\ ~TheStream.over
  /\ TheStream.n < MaxStreamEvents
  /\ Call([TheStream EXCEPT !.n = @ + 1,
                            !.events = Append(@, ev),
                            !.outs = Append(@, EventMessages(ev, FALSE, 1)),
                            !.over = (ev.type = "result")])

\* receive_messages() is exhausted
StreamEnds ==
  /\ ~TheStream.over
  /\ Call([TheStream EXCEPT !.over = TRUE])

NextStream ==
  \/ \E ev \in StreamEvents : StreamEvent(ev)
  \/ StreamEnds

SpecStream == InitStream /\ [][NextStream]_vars

(***************************************************************************)
(* Properties.  tlog[e] is the history of the turn endpoint e is running   *)
(* (or has just finished, while pc[e] = "done"); slog[e] is the history of *)
(* the last stop frame e handled.                                          *)
(***************************************************************************)
HasType(ms, t) == \E i \in 1..Len(ms) : ms[i].message_type = t
CountType(ms, t) == Cardinality({i \in 1..Len(ms) : ms[i].message_type = t})
Last(ms) == ms[Len(ms)]

\* the first attempt of the turn of e resumed a stored handle and its stream
\* ended without a chat Message
StaleFirstAttempt(e) ==
  LET lg == tlog[e]
  IN /\ lg.attempts /= <<>>
     /\ ~lg.attempts[1].runner
     /\ lg.attempts[1].resume /= NoHandle
     /\ 1 \in lg.ended
     /\ ~\E i \in 1..Len(lg.yielded) : IsChat(lg.yielded[i]) /\ lg.yielded[i].attempt = 1

\* C1: when the stream of a resumed attempt ends without a chat Message, the
\* session_complete of that attempt is never relayed, the stored handle is
\* cleared when the retry starts, and the same instruction is reissued
\* exactly once, with no resume handle.
C1_StaleResumeRetried ==
  \A e \in Endpoints :
    LET lg == tlog[e]
    IN /\ Len(lg.attempts) <= 2
       /\ StaleFirstAttempt(e) =>
            /\ ~\E i \in 1..Len(lg.relayed) :
                  /\ lg.relayed[i].message_type = "session_complete"
                  /\ lg.relayed[i].attempt = 1
            /\ Len(lg.attempts) = 2
            /\ ~lg.attempts[2].runner
            /\ lg.attempts[2].resume = NoHandle
            /\ lg.attempts[2].store = NoHandle
            /\ lg.attempts[2].content = lg.attempts[1].content

\* a turn whose resumed attempt delivered a result and no chat, and whose
\* retry has completed
C1_Witness ==
  \E e \in Endpoints :
    /\ StaleFirstAttempt(e)
    /\ 1 \in tlog[e].results
    /\ pc[e] = "done"
    /\ HasType(tlog[e].relayed, "session_complete")

\* the turn of e has ended, resolved to a route, handled no stop and no error
CleanTurn(e) ==
  /\ pc[e] = "done"
  /\ loc[e].resolved /= <<>>
  /\ ~tlog[e].stopped
  /\ ~tlog[e].raised
  /\ ~HasType(tlog[e].relayed, "error")

\* C2 as stated: the last Message relayed for a turn that resolved to a route
\* and was neither cancelled nor errored is session_complete, on either Runner
\* path, after a stale-resume retry, and on turns that wrote the artifact.
C2_LastIsSessionComplete ==
  \A e \in Endpoints :
    CleanTurn(e) =>
      /\ tlog[e].relayed /= <<>>
      /\ Last(tlog[e].relayed).message_type = "session_complete"

\* C2 amended: when the last Runner stream of such a turn delivered its
\* result, the last Message the Runner handed over is session_complete and it
\* is relayed; the only Message relayed after it is the agent_created of the
\* post-processing.
C2_SessionCompleteClosesStream ==
  \A e \in Endpoints :
    LET lg == tlog[e]
    IN (CleanTurn(e) /\ Len(lg.attempts) \in lg.results) =>
         /\ lg.handed /= <<>>
         /\ Last(lg.handed).message_type = "session_complete"
         /\ CountType(lg.handed, "session_complete") = 1
         /\ \/ lg.relayed = lg.handed
            \/ lg.relayed = Append(lg.handed, AgentCreatedMsg)

\* a clean turn of two attempts that wrote the artifact: agent_created
\* follows the session_complete of the retry
C2_Witness ==
  \E e \in Endpoints :
    /\ CleanTurn(e)
    /\ Len(tlog[e].attempts) = 2
    /\ 2 \in tlog[e].results
    /\ Last(tlog[e].relayed) = AgentCreatedMsg

\* C3 as stated: every stop frame handled has exactly one stopped Message
\* relayed for it; with no generation under way no interrupt is attempted.
C3_OneStoppedPerStop ==
  \A e \in Endpoints :
    slog[e].handled =>
      /\ Types(slog[e].relayed) = << "stopped" >>
      /\ ~slog[e].generating => ~slog[e].hook

\* C3 amended: a handled stop frame has exactly one Message relayed for it,
\* stopped unless the interrupt hook raised and then error; with no agent
\* executing for the project the hook is not called and stopped is relayed.
C3_OneReplyPerStop ==
  \A e \in Endpoints :
    slog[e].handled =>
      /\ Types(slog[e].relayed) = IF slog[e].raised THEN << "error" >> ELSE << "stopped" >>
      /\ slog[e].raised => slog[e].hook /\ slog[e].target /= NoClient
      /\ ~slog[e].generating => ~slog[e].hook /\ ~slog[e].raised

\* a stop whose interrupt hook was called and raised
C3_Witness ==
  \E e \in Endpoints : /\ slog[e].handled /\ slog[e].hook /\ slog[e].raised
                        /\ slog[e].relayed = << StopFailedMsg >>

\* C4: a stop frame sent while the turn is draining has the interrupt hook
\* invoked and the cancel flag set before the stream of the turn ends; here
\* for the endpoint that submitted the instruction.
C4_StopInterruptsBeforeStreamEnds ==
  \A e \in Endpoints :
    (pc[e] = "done" /\ tlog[e].stop_sent) => (tlog[e].hooked /\ tlog[e].stopped)

\* C5: the cancel flag of the conversation is false when an instruction
\* starts.
C5_CancelFalseAtStart ==
  \A e \in Endpoints : tlog[e].attempts /= <<>> => ~tlog[e].cancel_at_start

\* C6: at most one generation is in progress for a conversation.
C6_OneGenerationPerConversation ==
  \A p \in Projects : Cardinality(Generating(p)) <= 1

\* C7: a stop for one conversation interrupts only the client of that
\* conversation.
C7_StopStaysInConversation ==
  /\ \A e \in Endpoints :
       slog[e].target /= NoClient => ProjectOf(slog[e].target.owner) = ProjectOf(e)
  /\ \A g \in Endpoints : tlog[g].interrupted_by \subseteq {ProjectOf(g)}

\* C8: when the Runner raises, the handler clears the stored handle and
\* relays one error Message; the turn then ends without storing a handle
\* again, with exactly one error Message relayed, no executing handle and the
\* cancel flag false.
C8_ErrorStep ==
  \A e \in Endpoints :
    LET p == ProjectOf(e)
    IN /\ (~tlog[e].raised /\ tlog'[e].raised) =>
            /\ session_store'[p] = NoHandle
            /\ tlog'[e].relayed = Append(tlog[e].relayed, AgentErrorMsg)
            /\ pc'[e] = "send"
       /\ (tlog[e].raised /\ pc[e] = "send" /\ pc'[e] /= "send") =>
            /\ pc'[e] = "done"
            /\ session_store'[p] = session_store[p]
            /\ CountType(tlog'[e].relayed, "error") = 1
            /\ p \notin executing_agent'
            /\ p \notin cancelled_projects'
\* C8: every step of a turn whose Runner raises is such a step
C8_RunnerErrorRecovery == [][C8_ErrorStep]_vars

\* a turn that started with a stored handle, raised, and has ended
C8_Witness ==
  \E e \in Endpoints :
    /\ pc[e] = "done"
    /\ tlog[e].raised
    /\ tlog[e].store_at_start /= NoHandle
    /\ session_store[ProjectOf(e)] = NoHandle

\* C9: an instruction for which no route resolves has exactly one error
\* Message relayed, drives no Runner, and leaves the stored handle alone.
C9_NoRouteIsAnError ==
  \A e \in Endpoints :
    (loc[e].stage /= "-" /\ loc[e].resolved = <<>>) =>
      /\ tlog[e].attempts = <<>>
      /\ session_store[ProjectOf(e)] = tlog[e].store_at_start
      /\ pc[e] = "done" => Types(tlog[e].relayed) = << "error" >>

IsPrefix(a, b) == Len(a) <= Len(b) /\ a = SubSeq(b, 1, Len(a))

\* C10: every Message the Runner yields is relayed and then committed before
\* the next is pulled, in the order yielded; a failed commit stops neither
\* the relay of that Message nor the handling of the later ones.
C10_RelayThenPersist ==
  \A e \in Endpoints :
    LET lg == tlog[e]
        persisted == IF lg.raised THEN Append(lg.handed, AgentErrorMsg) ELSE lg.handed
    IN /\ IsPrefix(lg.handed, lg.yielded)
       /\ IsPrefix(lg.handed, lg.relayed)
       /\ Len(lg.handed) >= Len(lg.yielded) - 1
       /\ pc[e] /= "send" => lg.handed = lg.yielded
       /\ Len(lg.commits) = Len(persisted) - (IF pc[e] = "send" THEN 1 ELSE 0)
       /\ \A i \in 1..Len(lg.commits) : lg.commits[i].msg = persisted[i]

\* a turn all of whose Messages were relayed although the commit of an
\* earlier one failed
C10_Witness ==
  \E e \in Endpoints :
    /\ pc[e] = "done"
    /\ Len(tlog[e].handed) >= 3
    /\ ~tlog[e].commits[1].ok
    /\ tlog[e].commits[Len(tlog[e].commits)].ok

CountNote(ms, n) == Cardinality({i \in 1..Len(ms) : ms[i].note = n})

\* the turn of e runs /clear on the agent path and found a stored handle
ClearTurn(e) ==
  /\ tlog[e].attempts /= <<>>
  /\ ~tlog[e].attempts[1].runner
  /\ IsClear(tlog[e].attempts[1].content)
  /\ tlog[e].store_at_start /= NoHandle

C12_NoEmptyCredentialRoute ==
  \A e \in Endpoints :
    (tlog[e].attempts /= <<>> /\ loc[e].resolved /= <<>>) =>
      Truthy(loc[e].resolved[1].api_key)

(***************************************************************************)
(* The provider steps as section 4.1 words them: the set of providers      *)
(* each step may yield, and the first step that yields any.                *)
(***************************************************************************)
ProviderRows(d) == {d.providers[i] : i \in 1..Len(d.providers)}
ModelRows(d) == {d.models[i] : i \in 1..Len(d.models)}
ProjectRow(d, project_id) == CHOOSE r \in {d.projects[i] : i \in 1..Len(d.projects)} : r.id = project_id

StepExplicit(d, provider_id) ==
  {r \in ProviderRows(d) : Truthy(provider_id) /\ Plain(r.id) = provider_id /\ r.enabled}
StepOverride(d, project_id) ==
  {r \in ProviderRows(d) : Plain(r.id) = ProjectRow(d, project_id).override_provider_id /\ r.enabled}
StepOwner(d, model_id) ==
  {r \in ProviderRows(d) :
     /\ Truthy(model_id) /\ r.enabled
     /\ \E m \in ModelRows(d) : m.provider_id = r.id /\ Plain(m.model_id) = model_id}
StepGlobal(d) ==
  LET keyed == {r \in ProviderRows(d) : r.enabled /\ Truthy(r.api_key)}
      builtin == {r \in keyed : r.is_builtin}
  IN IF builtin /= {} THEN builtin ELSE keyed
FirstStep(d, model_id, provider_id, project_id) ==
  IF StepExplicit(d, provider_id) /= {} THEN StepExplicit(d, provider_id)
  ELSE IF StepOverride(d, project_id) /= {} THEN StepOverride(d, project_id)
  ELSE IF StepOwner(d, model_id) /= {} THEN StepOwner(d, model_id)
  ELSE StepGlobal(d)

\* C13: resolve returns a provider of the first step that yields one
\* (explicit provider, conversation override, enabled owner of the explicit
\* model, first enabled provider with a credential), and returns nothing
\* only when no step yields a provider.
C13_FirstMatchingStep ==
  aux.op = "resolve" =>
    LET step == FirstStep(db, aux.model_id, aux.provider_id, aux.project_id)
    IN IF step = {} THEN aux.out = <<>>
       ELSE aux.out /= <<>> /\ \E r \in step : r.id = aux.out[1].provider_id

\* C14: a returned route always carries a model: the explicit model_id,
\* else the conversation's default model, else the catalog default of the
\* resolved provider; with none of the three no route is returned.
C14_RouteHasModel ==
  aux.op = "resolve" /\ aux.out /= <<>> =>
    LET selected == ProjectRow(db, aux.project_id).selected_model
        defaults == {m \in ModelRows(db) :
                       m.provider_id = aux.out[1].provider_id /\ m.is_default}
    IN /\ aux.out[1].model_id /= Null
       /\ Truthy(aux.model_id) => aux.out[1].model_id = aux.model_id
       /\ ~Truthy(aux.model_id) /\ Truthy(selected) => aux.out[1].model_id = selected
       /\ ~Truthy(aux.model_id) /\ ~Truthy(selected) =>
            \E m \in defaults : aux.out[1].model_id = Plain(m.model_id)

DefaultsOf(d, provider_id) == {m \in ModelRows(d) : m.provider_id = provider_id /\ m.is_default}

\* C18: after any sequence of model requests every provider has at most one
\* default model, and a model just added or updated with is_default true is
\* the only default of its provider.
C18_OneDefaultPerProvider ==
  /\ \A q \in ProviderIds : Cardinality(DefaultsOf(db, q)) <= 1
  /\ \A m \in ModelRows(db) :
       /\ aux.op \in {"add_model", "update_model"} /\ aux.is_default
       /\ m.id = aux.id /\ m.provider_id = aux.provider_id
       => DefaultsOf(db, aux.provider_id) = {m}

\* a default model was added to a provider that had one: the old default
\* is still in the catalog, no longer as default
C18_Witness ==
  /\ aux.op = "add_model" /\ aux.is_default /\ aux.provider_id = "pa"
  /\ \E m, o \in ModelRows(db) :
       /\ m.id = aux.id /\ m.provider_id = "pa" /\ m.is_default
       /\ o.id = "m1" /\ o.provider_id = "pa" /\ ~o.is_default

\* C17: decrypting what encrypt_api_key returned for a non-empty secret gives
\* the secret back, with or without an encryption key, and decrypting a
\* legacy plaintext value gives that value.
C17_RoundTrip ==
  aux.op = "decrypt" \/ (aux.op = "encrypt" /\ Truthy(aux.plaintext)) =>
    /\ aux.out /= Raised
    /\ aux.op = "decrypt" /\ aux.of /= <<>> /\ Truthy(aux.of[1]) => aux.out = aux.of[1]
    /\ aux.op = "decrypt" /\ aux.of = <<>> /\ aux.ciphertext.kind = "plain" =>
         aux.out = aux.ciphertext

\* C16: a turn relays at most one agent-created Message, and only a turn of
\* a system-agent conversation at whose end the configuration artifact is
\* strictly newer than it was when the turn began (absent counting as
\* oldest); a turn that did not see the artifact written relays none.
C16_AgentCreatedOnlyWhenWritten ==
  \A e \in Endpoints :
    LET n == CountType(tlog[e].relayed, "agent_created")
        project == ProjectRow(db, ProjectOf(e))
    IN /\ n <= 1
       /\ n = 1 => /\ project.preferred_cli = "system-agent"
                   /\ tlog[e].mtime_after > tlog[e].mtime_before

\* a turn of a system-agent conversation during which the artifact was
\* written has ended, and one agent-created Message was relayed
C16_Witness ==
  \E e \in Endpoints :
    /\ pc[e] = "done" /\ loc[e].agent_type = "system-agent"
    /\ tlog[e].mtime_after > tlog[e].mtime_before
    /\ CountType(tlog[e].relayed, "agent_created") = 1

\* C15: when a broadcast has ended, every endpoint that was attached to
\* the conversation when it began and is attached still has been sent the
\* Message (its own send may have failed), whatever happened to the others.
C15_NoAttachedEndpointSkipped ==
  aux.op = "sent" =>
    \A e \in aux.start \cap Range(active_connections[aux.project_id]) :
      e \in aux.delivered \cup aux.raised

\* C19: in every state the registry holds an executing handle for a
\* conversation exactly when a generation is running for it.
C19_HandleIffGenerating ==
  \A p \in Projects : p \in executing_agent <=> Generating(p) /= {}

\* the first attempt of the turn of e ran on the agent path and yielded a
\* chat Message
ChatInFirstAttempt(e) ==
  LET lg == tlog[e]
  IN /\ lg.attempts /= <<>>
     /\ ~lg.attempts[1].runner
     /\ \E i \in 1..Len(lg.yielded) : IsChat(lg.yielded[i]) /\ lg.yielded[i].attempt = 1

\* C20: a turn whose first attempt yielded a chat Message is never retried,
\* and when the turn has ended the session_complete of that attempt has
\* been relayed, with or without a resumed handle.
C20_ChatMeansNoRetry ==
  \A e \in Endpoints :
    ChatInFirstAttempt(e) =>
      /\ Len(tlog[e].attempts) = 1
      /\ pc[e] = "done" =>
           \E i \in 1..Len(tlog[e].relayed) :
             /\ tlog[e].relayed[i].message_type = "session_complete"
             /\ tlog[e].relayed[i].attempt = 1

\* C20, amended: a turn whose first attempt yielded a chat Message is never
\* retried, and when the turn has ended after the stream of that attempt
\* delivered its result event, the session_complete of that attempt has
\* been relayed, with or without a resumed handle.
C20_ChatMeansNoRetryAndResultRelayed ==
  \A e \in Endpoints :
    ChatInFirstAttempt(e) =>
      /\ Len(tlog[e].attempts) = 1
      /\ pc[e] = "done" /\ 1 \in tlog[e].results =>
           \E i \in 1..Len(tlog[e].relayed) :
             /\ tlog[e].relayed[i].message_type = "session_complete"
             /\ tlog[e].relayed[i].attempt = 1

\* a turn that resumed a stored handle yielded a chat Message in its first
\* attempt and has ended with the session_complete of that attempt relayed
C20_Witness ==
  \E e \in Endpoints :
    /\ ChatInFirstAttempt(e)
    /\ tlog[e].attempts[1].resume /= NoHandle
    /\ pc[e] = "done" /\ 1 \in tlog[e].results
    /\ Len(tlog[e].attempts) = 1
    /\ \E i \in 1..Len(tlog[e].relayed) :
         tlog[e].relayed[i].message_type = "session_complete"

OfAttempt(ms, k) == SelectSeq(ms, LAMBDA m : m.attempt = k)

\* C21: an instruction is run through at most two attempts, and what the
\* retry yields is relayed as it is: the Messages of the retry relayed so
\* far are the ones it yielded, in order, and once the turn has ended all of
\* them have been relayed, the session_complete of the retry included,
\* whether or not the retry yielded a chat Message.
C21_OneRetryUnfiltered ==
  \A e \in Endpoints :
    LET lg == tlog[e]
    IN /\ Len(lg.attempts) <= 2
       /\ IsPrefix(OfAttempt(lg.relayed, 2), OfAttempt(lg.yielded, 2))
       /\ pc[e] \in {"stream", "done"} => OfAttempt(lg.relayed, 2) = OfAttempt(lg.yielded, 2)
       /\ pc[e] = "done" /\ 2 \in lg.results =>
            \E i \in 1..Len(lg.relayed) :
              /\ lg.relayed[i].message_type = "session_complete"
              /\ lg.relayed[i].attempt = 2

\* a retry that yielded no chat Message has ended with its session_complete
\* relayed, and the turn is over after two attempts
C21_Witness ==
  \E e \in Endpoints :
    LET lg == tlog[e]
    IN /\ pc[e] = "done" /\ Len(lg.attempts) = 2 /\ 2 \in lg.results
       /\ ~\E i \in 1..Len(lg.yielded) : IsChat(lg.yielded[i])
       /\ \E i \in 1..Len(lg.relayed) :
            lg.relayed[i].message_type = "session_complete" /\ lg.relayed[i].attempt = 2

\* C22: once a stop has been handled for the generation of a turn (the
\* interrupt hook invoked, the cancel flag set), no step of that turn starts
\* another attempt.
C22_NoAttemptAfterStop ==
  [][\A e \in Endpoints :
       tlog[e].hooked /\ tlog'[e].hooked =>
         Len(tlog'[e].attempts) <= Len(tlog[e].attempts)]_vars

\* the stop that interrupted the turn of g has had its stopped Message relayed
StoppedRelayed(g) ==
  /\ tlog[g].hooked
  /\ \E e \in Endpoints :
       /\ ProjectOf(e) = ProjectOf(g)
       /\ slog[e].handled /\ slog[e].hook
       /\ slog[e].relayed = << StoppedMsg >>

\* C23: after the stopped Message has been relayed for a generation, no step
\* of that turn relays a Message yielded by an attempt of the generation, and
\* none persists one.
C23_StoppedIsLast ==
  [][\A g \in Endpoints :
       StoppedRelayed(g) /\ tlog'[g].hooked =>
         /\ \A i \in DOMAIN tlog'[g].relayed :
              i > Len(tlog[g].relayed) => tlog'[g].relayed[i].attempt = 0
         /\ tlog'[g].commits = tlog[g].commits]_vars

\* the first attempt of the turn of e resumed a handle and received the
\* result event before any chat Message: base.py:139-141 withholds the
\* session_complete Message made from it
Withheld(e) ==
  LET lg == tlog[e]
  IN /\ lg.attempts /= <<>>
     /\ ~lg.attempts[1].runner
     /\ lg.attempts[1].resume /= NoHandle
     /\ 1 \in lg.results
     /\ ~\E i \in 1..Len(lg.yielded) : IsChat(lg.yielded[i]) /\ lg.yielded[i].attempt = 1

\* C24: for an instruction run by the stateful agent, at most one
\* session_complete Message is relayed over the first attempt and the retry;
\* a session_complete withheld from the first attempt is never relayed, and
\* once the stream that held it has ended the retry has been started.
C24_OneSessionComplete ==
  \A e \in Endpoints :
    LET lg == tlog[e]
    IN lg.attempts /= <<>> /\ ~lg.attempts[1].runner =>
         /\ CountType(lg.relayed, "session_complete") <= 1
         /\ Withheld(e) =>
              /\ CountType(OfAttempt(lg.relayed, 1), "session_complete") = 0
              /\ 1 \in lg.ended => Len(lg.attempts) = 2

\* a withheld session_complete, the retry run to its own result, and only the
\* retry's session_complete relayed
C24_Witness ==
  \E e \in Endpoints :
    LET lg == tlog[e]
    IN /\ Withheld(e) /\ pc[e] = "done"
       /\ lg.results = {1, 2}
       /\ CountType(lg.relayed, "session_complete") = 1

\* the turn of e has ended without exception after a stale retry whose stream
\* contained an init event
RetriedWithInit(e) ==
  LET lg == tlog[e]
  IN /\ pc[e] = "done" /\ ~lg.raised
     /\ Len(lg.attempts) = 2
     /\ lg.attempts[1].resume /= NoHandle
     /\ 2 \in lg.inits

\* C25: after a turn that went through the stale retry, whose retry stream
\* contained an init event and ended without exception, the stored handle of
\* the conversation is the one the retry's init event reported (the session
\* of the retry's client): not the stale handle, not a handle of the first
\* attempt, not absent.
C25_RetryHandleStored ==
  \A e \in Endpoints :
    RetriedWithInit(e) =>
      LET lg == tlog[e]
          h == session_store[ProjectOf(e)]
      IN /\ h = lg.attempts[2].client
         /\ h /= NoHandle
         /\ h /= lg.attempts[1].resume
         /\ h /= lg.attempts[1].client

\* the handles the backend may report in the init event of the stream of e
InitHandles(e) ==
  {ev.session_id : ev \in {x \in BackendEvents(loc[e]) :
                             x.type = "system" /\ x.subtype = "init"}}

\* C26: for an instruction other than /clear run by the stateful agent, the
\* step that processes the init event of a stream stores the handle the event
\* carries: when the system Message of the event is yielded, and before any
\* later event of the stream is processed, the registry entry of the
\* conversation holds that handle.
C26_HandleStoredWithInit ==
  [][\A e \in Endpoints :
       /\ pc[e] = "stream" /\ ~loc[e].is_clear_command
       /\ tlog'[e].inits /= tlog[e].inits
       => /\ session_store'[ProjectOf(e)] \in InitHandles(e)
          /\ pc'[e] = "send"
          /\ Last(tlog'[e].yielded) = Msg("system", "system", "initialized", loc[e].attempt)
          /\ Len(tlog'[e].yielded) = Len(tlog[e].yielded) + 1]_vars

\* the init event of a first stream has been processed and its Message is
\* being sent: the handle is stored while the stream is still open
C26_Witness ==
  \E e \in Endpoints :
    /\ pc[e] = "send" /\ ~loc[e].is_clear_command /\ ~loc[e].over
    /\ tlog[e].inits = {1} /\ tlog[e].results = {}
    /\ Last(tlog[e].relayed) = Msg("system", "system", "initialized", 1)
    /\ session_store[ProjectOf(e)] = loc[e].client
    /\ tlog[e].store_at_start = NoHandle

\* the instruction of e was routed to the turn-based runner and the call of
\* chat.py:199-207 has been made
RunnerTurn(e) ==
  /\ pc[e] \in {"send", "done"}
  /\ loc[e].resolved /= <<>>
  /\ get_runner(loc[e].resolved[1])

\* C27: every invocation of the turn-based runner yields [session_complete],
\* [chat, session_complete] or [error], and nothing else.
C27_RunnerSequences ==
  \A e \in Endpoints :
    RunnerTurn(e) =>
      tlog[e].yielded \in
        { << Msg("system", "session_complete", "-", 1) >>,
          << Msg("assistant", "chat", "-", 1), Msg("system", "session_complete", "-", 1) >>,
          << Msg("system", "error", "model_error", 1) >> }

\* the names of the tool blocks of an event, and of the tool_use Messages
\* yielded for it, in order
ToolNames(blocks) ==
  LET ts == SelectSeq(blocks, LAMBDA b : b.kind = "tool")
  IN [i \in 1..Len(ts) |-> ts[i].name]
ToolUseNotes(ms) ==
  LET ts == SelectSeq(ms, LAMBDA m : m.message_type = "tool_use")
  IN [i \in 1..Len(ts) |-> ts[i].note]

\* C28: in one stream of the stateful agent, each assistant event yields a
\* tool_use Message per tool block, in block order, then a chat Message if
\* and only if the text blocks hold something else than white space, and
\* nothing else; a result event yields one session_complete Message and is
\* the last event the stream processes.
C28_EventMessages ==
  \A i \in 1..Len(TheStream.events) :
    LET ev == TheStream.events[i]
        out == TheStream.outs[i]
        k == Len(ToolNames(IF ev.type = "assistant" THEN ev.content ELSE <<>>))
    IN /\ ev.type = "assistant" =>
            /\ ToolUseNotes(out) = ToolNames(ev.content)
            /\ \A j \in 1..k : out[j].message_type = "tool_use" /\ out[j].role = "assistant"
            /\ Len(out) \in {k, k + 1}
            /\ Len(out) = k + 1 <=>
                 \E b \in Range(ev.content) : b.kind = "text" /\ b.text \notin {"", " "}
            /\ Len(out) = k + 1 => IsChat(out[k + 1])
       /\ ev.type = "result" =>
            /\ out = << Msg("system", "session_complete", "-", 1) >>
            /\ i = Len(TheStream.events)
            /\ TheStream.over

\* an event with a text block before a tool block, then the result event
C28_Witness ==
  /\ Len(TheStream.events) = 2
  /\ TheStream.events[1] = AssistantEvent(<< TextBlock("words"), ToolUseBlock("Read") >>)
  /\ TheStream.outs[1] = << Msg("assistant", "tool_use", "Read", 1),
                            Msg("assistant", "chat", "-", 1) >>
  /\ TheStream.events[2] = ResultEvent
  /\ TheStream.outs[2] = << Msg("system", "session_complete", "-", 1) >>
  /\ TheStream.over

\* what the variable of the process holds for a route when nothing but that
\* route has set it
OwnSetting(v) == IF Truthy(v) THEN v ELSE Null

\* C29: when a turn of the stateful agent opens its backend client, the
\* credential and the base endpoint in the environment of the process are
\* those of the turn's own route, whatever instructions were processed
\* before: none when the route has an empty credential or no base endpoint.
C29_EnvironIsRoute ==
  \A e \in Endpoints :
    /\ pc[e] = "connect" /\ loc[e].stage = "first"
    /\ loc[e].resolved /= <<>> /\ loc[e].resolved[1].protocol = "anthropic"
    => /\ environ.ANTHROPIC_API_KEY = OwnSetting(loc[e].resolved[1].api_key)
       /\ environ.ANTHROPIC_BASE_URL = OwnSetting(loc[e].resolved[1].base_url)

\* C30: a route returned by resolve with a model names a model of the
\* catalog of the provider it returns.
C30_ModelInCatalog ==
  aux.op = "resolve" /\ aux.out /= <<>> /\ aux.out[1].model_id /= Null =>
    \E m \in ModelRows(db) :
      /\ m.provider_id = aux.out[1].provider_id
      /\ Plain(m.model_id) = aux.out[1].model_id

====
